---- MODULE Spec2Model ----
(***************************************************************************)
(* The client-side histogram caches of falcon (src/client/cache.ts): the   *)
(* abstract Cache, the exact-index SimpleCache and the SnappingCache.      *)
(*                                                                         *)
(* One SimpleCache and one SnappingCache are built over the same declared  *)
(* dimension list and receive the same set / invalidate calls, so that the *)
(* two strategies can be compared call by call.                            *)
(*                                                                         *)
(* A JavaScript object is modelled as its property table: a sequence of    *)
(* [key, value] records in property-creation order.  Object.keys does not  *)
(* return that order as it is: array-index keys come first, ascending.     *)
(* A number[] is a TLA+ sequence; JavaScript's 0-based positions are kept  *)
(* in the binary search and shifted by one when the sequence is read.      *)
(***************************************************************************)
EXTENDS Integers, Sequences, FiniteSets

VARIABLES
    dimensions,   \* Cache.dimensions: the constructor-declared list
    simple,       \* SimpleCache.cache
    snapping,     \* SnappingCache.cache
    ret,          \* the last call and how it ended: [op, args, end]; the
                  \* arguments are kept for set only
    stored,       \* history: the data last passed to set for each dimension
                  \* and coordinate since the last invalidate, or Null
    firstSet,     \* history: the dimensions passed to set since the last
                  \* invalidate, in the order of their first set
    discarded,    \* history: how many SnappingCache entries the last
                  \* invalidate dropped, 0 once set is called again
    setCalls,     \* history: how many times set was called for each
                  \* dimension and coordinate since the last invalidate
    heap,         \* the number[] objects of the program, by reference: the
                  \* reference i is the array heap[i]
    simpleRefs,   \* SimpleCache.cache, holding references into heap
    snappingRefs, \* SnappingCache.cache, holding references into heap
    passed,       \* the references the caller passed to set and still holds
    returned,     \* the references reads returned to the caller
    inFlight,     \* the responses of the queries that were issued and not
                  \* yet answered: [index, dimension, data, stale], stale
                  \* (history) when invalidate was called since the query
    staleSets,    \* history: the stale responses passed to set since the
                  \* last invalidate: [index, dimension, data, overwritten],
                  \* overwritten when set was called again for the same
                  \* dimension and coordinate
    search        \* a call of SnappingCache.get in progress, statement by
                  \* statement: [data, index, lo, hi, closest, pc]

vars == <<dimensions, simple, snapping, ret, stored, firstSet, discarded, setCalls,
          heap, simpleRefs, snappingRefs, passed, returned, inFlight, staleSets,
          search>>

\* The state of the two caches
caches == <<dimensions, simple, snapping>>

\* The history of the calls, kept for stating the properties
history == <<stored, firstSet, discarded, setCalls>>

\* The caches and their caller when arrays are objects that can be shared
\* and written to (SpecOwnership); the other specifications pass arrays
\* that nobody writes to and keep them by value in simple and snapping
ownership == <<heap, simpleRefs, snappingRefs, passed, returned>>

\* The query layer's responses on their way to set (SpecRace)
race == <<inFlight, staleSets>>

----------------------------------------------------------------------------
(* Bounds of the model *)

\* set calls since the last invalidate, in Spec
MaxSets == 3

\* set calls since the last invalidate, in SpecCalls (which also records reads)
MaxCallSets == 2

\* set calls since the last invalidate, in SpecLongStore (one dimension)
MaxLongStoreSets == 5

\* Dimension names callers pass: two ordinary names and one that is a
\* canonical array index ("1"), which Object.keys orders differently.
DimensionNames == {"a", "b", "1"}

\* Coordinates passed to set: negative, zero and positive, two apart so that
\* a target can lie exactly between two stored coordinates.
Coordinates == {-2, 0, 2}

\* Coordinates passed to set in SpecLongStore
LongStoreCoordinates == -2 .. 2

\* Coordinates passed to the reads: every stored one, the ones between them
\* and one beyond each end.
Targets == -3 .. 3

\* Histogram snapshots passed to set: two of equal length whose difference
\* has a negative bucket, and one of another length.
Snapshots == {<<1, 2>>, <<3, 1>>, <<5>>}

\* Dimension lists passed to the constructor: empty, and one that leaves a
\* dimension callers use undeclared.
DimensionLists == {<<>>, <<"a", "b">>}

----------------------------------------------------------------------------
(* JavaScript values and objects *)

Null == [kind |-> "null"]

Undefined == [kind |-> "undefined"]

\* How a call ends: it returns a value, or it throws an Error
Normal(v) == [type |-> "normal", value |-> v]

Throw(message) == [type |-> "throw", value |-> message]

\* throw Error('low and high have to have the same length')
LengthError == Throw("low and high have to have the same length")

\* A number[] that may also be null, boxed so that the two can be compared
Array(items) == [kind |-> "array", items |-> items]

\* The array index a dimension name denotes as a property key, -1 when it
\* is an ordinary string key.
DimensionArrayIndex == [d \in DimensionNames |-> IF d = "1" THEN 1 ELSE -1]

\* The array index a coordinate denotes as a property key: ToString of a
\* non-negative integer is an array index, "-2" is an ordinary string key.
CoordinateArrayIndex == [c \in Int |-> IF c >= 0 THEN c ELSE -1]

\* k in obj / obj[k] !== undefined, for an object without inherited keys in use
HasProperty(obj, k) == \E i \in 1 .. Len(obj) : obj[i].key = k

\* obj[k]
GetProperty(obj, k) == obj[CHOOSE i \in 1 .. Len(obj) : obj[i].key = k].value

\* obj[k] = v: an existing property keeps its place, a new one is created last
SetProperty(obj, k, v) ==
    IF HasProperty(obj, k)
    THEN [i \in 1 .. Len(obj) |->
            IF obj[i].key = k THEN [key |-> k, value |-> v] ELSE obj[i]]
    ELSE Append(obj, [key |-> k, value |-> v])

RECURSIVE AscendingKeys(_, _)
\* The keys of the set ks, ascending by their array index
AscendingKeys(ks, arrayIndex) ==
    IF ks = {} THEN <<>>
    ELSE LET k == CHOOSE x \in ks : \A y \in ks : arrayIndex[x] <= arrayIndex[y]
         IN  <<k>> \o AscendingKeys(ks \ {k}, arrayIndex)

RECURSIVE CreationOrderKeys(_, _)
\* The keys of obj that are no array index, in creation order
CreationOrderKeys(obj, arrayIndex) ==
    IF obj = <<>> THEN <<>>
    ELSE IF arrayIndex[Head(obj).key] >= 0
         THEN CreationOrderKeys(Tail(obj), arrayIndex)
         ELSE <<Head(obj).key>> \o CreationOrderKeys(Tail(obj), arrayIndex)

\* Object.keys(obj): array-index keys ascending, then the others as created
ObjectKeys(obj, arrayIndex) ==
    AscendingKeys({obj[i].key : i \in {j \in 1 .. Len(obj) : arrayIndex[obj[j].key] >= 0}},
                  arrayIndex)
    \o CreationOrderKeys(obj, arrayIndex)

----------------------------------------------------------------------------
(* combineRanges *)

\* combineRanges without the length check: a bucket missing from high
\* counts as 0
combineRangesUnchecked(low, high) ==
    Normal([bucket \in 1 .. Len(low) |->
               (IF bucket <= Len(high) THEN high[bucket] ELSE 0) - low[bucket]])

\* combineRanges with the operands of the subtraction exchanged
combineRangesSwapped(low, high) ==
    IF Len(low) # Len(high)
    THEN LengthError
    ELSE Normal([bucket \in 1 .. Len(low) |-> low[bucket] - high[bucket]])

\* combineRanges that returns 0 for a bucket whose difference is negative
combineRangesClamped(low, high) ==
    IF Len(low) # Len(high)
    THEN LengthError
    ELSE Normal([bucket \in 1 .. Len(low) |->
                   IF high[bucket] - low[bucket] < 0 THEN 0
                   ELSE high[bucket] - low[bucket]])

\* combineRanges(low, high): the bucket-wise difference, or the thrown Error
combineRanges(low, high) ==
    IF Len(low) # Len(high)
    THEN LengthError
    ELSE Normal([bucket \in 1 .. Len(low) |-> high[bucket] - low[bucket]])

\* Whether combineRanges(low, high) writes 'Invalid data.' to console.error
InvalidDataLogged(low, high) ==
    /\ Len(low) = Len(high)
    /\ \E bucket \in 1 .. Len(low) : high[bucket] - low[bucket] < 0

\* if (v): arrays and objects are truthy, null is not
Truthy(v) == v # Null

----------------------------------------------------------------------------
(* Cache: what the two strategies share *)

\* getDimensions that lists the dimensions as they were created
getDimensionsAsCreated(cache) == [i \in 1 .. Len(cache) |-> cache[i].key]

\* getDimensions(): Object.keys(this.cache)
getDimensions(cache) == ObjectKeys(cache, DimensionArrayIndex)

\* invalidate that leaves the cache as it is
invalidateKeeps(cache) == cache

\* invalidate(): this.cache = {}
invalidate(cache) == <<>>

\* .map(...).filter(d => d): the values the callback returned that are not
\* undefined, in order
FilterDefined(seq) ==
    LET values == [i \in 1 .. Len(seq) |-> seq[i].value]
    IN  SelectSeq(values, LAMBDA d : d # Undefined)

\* Whether a call of the map callback throws: map stops at the first one
\* that does and the Error leaves getAllCombined
Throws(seq) == \E i \in 1 .. Len(seq) : seq[i].type = "throw"

----------------------------------------------------------------------------
(* SimpleCache *)

\* set that leaves a coordinate that is already stored as it is
SimpleSetKeepsFirst(cache, index, dimension, data) ==
    LET created == IF ~HasProperty(cache, dimension)
                   THEN SetProperty(cache, dimension, <<>>)
                   ELSE cache
        entry   == GetProperty(created, dimension)
    IN  IF HasProperty(entry, index) THEN created
        ELSE SetProperty(created, dimension, SetProperty(entry, index, data))

\* set that creates the object of the dimension on every call
SimpleSetStartsOver(cache, index, dimension, data) ==
    SetProperty(cache, dimension, SetProperty(<<>>, index, data))

\* set(index, dimension, data)
SimpleSet(cache, index, dimension, data) ==
    LET created == IF ~HasProperty(cache, dimension)
                   THEN SetProperty(cache, dimension, <<>>)
                   ELSE cache
    IN  SetProperty(created, dimension,
                    SetProperty(GetProperty(created, dimension), index, data))

\* get(index, dimension): the stored data, or null
SimpleGet(cache, index, dimension) ==
    IF ~HasProperty(cache, dimension)
    THEN Null
    ELSE LET entry == GetProperty(cache, dimension)
         IN  IF HasProperty(entry, index) THEN Array(GetProperty(entry, index)) ELSE Null

\* getCombined that reports the range with the lower coordinate first
SimpleGetCombinedOrdersRange(cache, start, end, dimension) ==
    LET low  == SimpleGet(cache, start, dimension)
        high == SimpleGet(cache, end, dimension)
    IN  IF Truthy(low) /\ Truthy(high)
        THEN LET data == combineRanges(low.items, high.items)
             IN  IF data.type = "throw"
                 THEN data
                 ELSE Normal([data  |-> data.value,
                              range |-> IF start <= end THEN <<start, end>>
                                        ELSE <<end, start>>])
        ELSE Normal(Null)

\* getCombined(start, end, dimension)
SimpleGetCombined(cache, start, end, dimension) ==
    LET low  == SimpleGet(cache, start, dimension)
        high == SimpleGet(cache, end, dimension)
    IN  IF Truthy(low) /\ Truthy(high)
        THEN LET data == combineRanges(low.items, high.items)
             IN  IF data.type = "throw"
                 THEN data
                 ELSE Normal([data |-> data.value, range |-> <<start, end>>])
        ELSE Normal(Null)

\* hasFullData(index): the loop over this.dimensions
\* hasFullData that loops over the dimensions of the store, not over the
\* declared ones
SimpleHasFullDataOfStore(cache, dims, index) ==
    \A i \in 1 .. Len(getDimensions(cache)) :
        Truthy(SimpleGet(cache, index, getDimensions(cache)[i]))

SimpleHasFullData(cache, dims, index) ==
    \A i \in 1 .. Len(dims) : Truthy(SimpleGet(cache, index, dims[i]))

\* getDebugData(): parseInt of each key gives the coordinate back
SimpleGetDebugData(cache) ==
    LET ds == getDimensions(cache)
    IN  [i \in 1 .. Len(ds) |->
            [dimension |-> ds[i],
             caches    |-> ObjectKeys(GetProperty(cache, ds[i]), CoordinateArrayIndex)]]

\* getAllCombined(start, end) of a SimpleCache
SimpleGetAllCombined(cache, start, end) ==
    LET ds     == getDimensions(cache)
        mapped == [i \in 1 .. Len(ds) |->
                      LET result == SimpleGetCombined(cache, start, end, ds[i])
                      IN  IF result.type = "throw" THEN result
                          ELSE IF Truthy(result.value)
                          THEN Normal([dimension |-> ds[i],
                                       data      |-> result.value.data,
                                       range     |-> result.value.range])
                          ELSE Normal(Undefined)]
    IN  IF Throws(mapped)
        THEN mapped[CHOOSE i \in 1 .. Len(mapped) :
                        /\ mapped[i].type = "throw"
                        /\ \A j \in 1 .. i - 1 : mapped[j].type = "normal"]
        ELSE Normal(FilterDefined(mapped))

----------------------------------------------------------------------------
(* SnappingCache *)

\* d3-array's ascending(a, b) on numbers
ascending(a, b) == IF a < b THEN -1 ELSE IF a > b THEN 1 ELSE 0

\* arr without the first of its elements equal to e
RemoveFirst(arr, e) ==
    LET i == CHOOSE k \in 1 .. Len(arr) :
                 arr[k] = e /\ \A m \in 1 .. k - 1 : arr[m] # e
    IN  SubSeq(arr, 1, i - 1) \o SubSeq(arr, i + 1, Len(arr))

RECURSIVE SortOutcomes(_)
\* arr.sort((x, y) => ascending(x.index, y.index)): every order of the
\* elements of arr that the comparator accepts, built from the front: an
\* element that no other precedes, then the rest sorted.  Which of two
\* entries of equal index comes first is left to the engine's sort (stable
\* only since ES2019).
SortOutcomes(arr) ==
    IF arr = <<>> THEN {<<>>}
    ELSE LET least == {arr[i] : i \in {j \in 1 .. Len(arr) :
                          \A k \in 1 .. Len(arr) :
                              ascending(arr[j].index, arr[k].index) <= 0}}
         IN  UNION {{<<e>> \o rest : rest \in SortOutcomes(RemoveFirst(arr, e))} :
                       e \in least}

\* A push that replaces the entry already stored at index, if there is one
SnappingPushOverwrites(cache, index, dimension, data) ==
    LET arr == IF HasProperty(cache, dimension) THEN GetProperty(cache, dimension)
               ELSE <<>>
    IN  IF \E i \in 1 .. Len(arr) : arr[i].index = index
        THEN [i \in 1 .. Len(arr) |->
                 IF arr[i].index = index THEN [index |-> index, data |-> data]
                 ELSE arr[i]]
        ELSE Append(arr, [index |-> index, data |-> data])

\* set(index, dimension, data), up to the sort: the array after the push
SnappingPush(cache, index, dimension, data) ==
    LET created == IF ~HasProperty(cache, dimension)
                   THEN SetProperty(cache, dimension, <<>>)
                   ELSE cache
    IN  Append(GetProperty(created, dimension), [index |-> index, data |-> data])

\* set without the sort: the new entry stays last
SnappingSetUnsorted(cache, index, dimension, data) ==
    {SetProperty(cache, dimension, SnappingPush(cache, index, dimension, data))}

\* set that creates the cache object anew, keeping this dimension only
SnappingSetOneDimension(cache, index, dimension, data) ==
    {SetProperty(<<>>, dimension, sorted) :
        sorted \in SortOutcomes(SnappingPush(cache, index, dimension, data))}

\* set(index, dimension, data): the caches the call can leave
SnappingSet(cache, index, dimension, data) ==
    {SetProperty(cache, dimension, sorted) :
        sorted \in SortOutcomes(SnappingPush(cache, index, dimension, data))}

RECURSIVE BinarySearch(_, _, _, _)
\* The while loop of get: <<lo, hi>> when it ends (0-based positions)
BinarySearch(data, index, lo, hi) ==
    IF hi - lo > 1
    THEN LET mid == (lo + hi) \div 2
         IN  IF data[mid + 1].index < index
             THEN BinarySearch(data, index, mid, hi)
             ELSE BinarySearch(data, index, lo, mid)
    ELSE <<lo, hi>>

\* get that prefers the higher entry when both are equally close
SnappingGetTiesHigh(cache, index, dimension) ==
    IF ~HasProperty(cache, dimension) \/ Len(GetProperty(cache, dimension)) = 0
    THEN Null
    ELSE LET data == GetProperty(cache, dimension)
             found == BinarySearch(data, index, 0, Len(data) - 1)
             lo == found[1]
             hi == found[2]
             loIsCloser == index - data[lo + 1].index < data[hi + 1].index - index
             closest == IF loIsCloser THEN data[lo + 1] ELSE data[hi + 1]
         IN  [index |-> closest.index, data |-> closest.data]

\* get that takes data[hi] when data[lo] is closer
SnappingGetFarther(cache, index, dimension) ==
    IF ~HasProperty(cache, dimension) \/ Len(GetProperty(cache, dimension)) = 0
    THEN Null
    ELSE LET data == GetProperty(cache, dimension)
             found == BinarySearch(data, index, 0, Len(data) - 1)
             lo == found[1]
             hi == found[2]
             loIsCloser == index - data[lo + 1].index <= data[hi + 1].index - index
             closest == IF loIsCloser THEN data[hi + 1] ELSE data[lo + 1]
         IN  [index |-> closest.index, data |-> closest.data]

\* get(index, dimension): a copy of the closest entry, or null
SnappingGet(cache, index, dimension) ==
    IF ~HasProperty(cache, dimension) \/ Len(GetProperty(cache, dimension)) = 0
    THEN Null
    ELSE LET data == GetProperty(cache, dimension)
             found == BinarySearch(data, index, 0, Len(data) - 1)
             lo == found[1]
             hi == found[2]
             loIsCloser == index - data[lo + 1].index <= data[hi + 1].index - index
             closest == IF loIsCloser THEN data[lo + 1] ELSE data[hi + 1]
         IN  [index |-> closest.index, data |-> closest.data]

\* getCombined that accepts two boundaries snapped to the same coordinate
SnappingGetCombinedNotStrict(cache, start, end, dimension) ==
    LET low  == SnappingGet(cache, start, dimension)
        high == SnappingGet(cache, end, dimension)
    IN  IF Truthy(low) /\ Truthy(high) /\ high.index >= low.index
        THEN LET data == combineRanges(low.data, high.data)
             IN  IF data.type = "throw"
                 THEN data
                 ELSE Normal([data |-> data.value, range |-> <<low.index, high.index>>])
        ELSE Normal(Null)

\* getCombined that compares the snapped coordinates the other way round
SnappingGetCombinedInverted(cache, start, end, dimension) ==
    LET low  == SnappingGet(cache, start, dimension)
        high == SnappingGet(cache, end, dimension)
    IN  IF Truthy(low) /\ Truthy(high) /\ high.index < low.index
        THEN LET data == combineRanges(low.data, high.data)
             IN  IF data.type = "throw"
                 THEN data
                 ELSE Normal([data |-> data.value, range |-> <<low.index, high.index>>])
        ELSE Normal(Null)

\* getCombined(start, end, dimension)
SnappingGetCombined(cache, start, end, dimension) ==
    LET low  == SnappingGet(cache, start, dimension)
        high == SnappingGet(cache, end, dimension)
    IN  IF Truthy(low) /\ Truthy(high) /\ high.index > low.index
        THEN LET data == combineRanges(low.data, high.data)
             IN  IF data.type = "throw"
                 THEN data
                 ELSE Normal([data |-> data.value, range |-> <<low.index, high.index>>])
        ELSE Normal(Null)

\* hasFullData that accepts whatever entry is closest
SnappingHasFullDataNearby(cache, dims, index) ==
    \A i \in 1 .. Len(dims) : Truthy(SnappingGet(cache, index, dims[i]))

\* hasFullData(index): the loop over this.dimensions
SnappingHasFullData(cache, dims, index) ==
    \A i \in 1 .. Len(dims) :
        LET item == SnappingGet(cache, index, dims[i])
        IN  Truthy(item) /\ item.index = index

\* getDebugData()
SnappingGetDebugData(cache) ==
    LET ds == getDimensions(cache)
    IN  [i \in 1 .. Len(ds) |->
            [dimension |-> ds[i],
             caches    |-> LET arr == GetProperty(cache, ds[i])
                           IN  [k \in 1 .. Len(arr) |-> arr[k].index]]]

\* getAllCombined(start, end) of a SnappingCache
SnappingGetAllCombined(cache, start, end) ==
    LET ds     == getDimensions(cache)
        mapped == [i \in 1 .. Len(ds) |->
                      LET result == SnappingGetCombined(cache, start, end, ds[i])
                      IN  IF result.type = "throw" THEN result
                          ELSE IF Truthy(result.value)
                          THEN Normal([dimension |-> ds[i],
                                       data      |-> result.value.data,
                                       range     |-> result.value.range])
                          ELSE Normal(Undefined)]
    IN  IF Throws(mapped)
        THEN mapped[CHOOSE i \in 1 .. Len(mapped) :
                        /\ mapped[i].type = "throw"
                        /\ \A j \in 1 .. i - 1 : mapped[j].type = "normal"]
        ELSE Normal(FilterDefined(mapped))

----------------------------------------------------------------------------
(* The calls *)

\* The number of set calls since the last invalidate: SnappingCache keeps
\* one entry for each
SetCount == LET ds == getDimensions(snapping)
            IN  IF ds = <<>> THEN 0
                ELSE LET sizes == [i \in 1 .. Len(ds) |-> Len(GetProperty(snapping, ds[i]))]
                         sum[i \in 0 .. Len(ds)] == IF i = 0 THEN 0 ELSE sum[i - 1] + sizes[i]
                     IN  sum[Len(ds)]

\* No set call since the last invalidate
NothingStored == [d \in DimensionNames, c \in Targets |-> Null]

\* No set call since the last invalidate, counted
NoSetCalls == [d \in DimensionNames, c \in Targets |-> 0]

\* Whether the sequence seq holds x
Contains(seq, x) == \E i \in 1 .. Len(seq) : seq[i] = x

\* No call of SnappingCache.get is in progress
NoSearch == [pc |-> "none"]

\* new SimpleCache(dimensions), new SnappingCache(dimensions)
Constructed ==
    /\ dimensions \in DimensionLists
    /\ simple = <<>>
    /\ snapping = <<>>
    /\ ret = [op |-> "constructor", args |-> <<>>, end |-> Normal(Undefined)]
    /\ stored = NothingStored
    /\ firstSet = <<>>
    /\ discarded = 0
    /\ setCalls = NoSetCalls
    /\ heap = <<>>
    /\ simpleRefs = <<>>
    /\ snappingRefs = <<>>
    /\ passed = {}
    /\ returned = {}
    /\ inFlight = {}
    /\ staleSets = {}

\* The caches after construction, no call in progress
Init == Constructed /\ search = NoSearch

\* cache.set(index, dimension, data) on both caches
Set(index, dimension, data) ==
    /\ simple' = SimpleSet(simple, index, dimension, data)
    /\ snapping' \in SnappingSet(snapping, index, dimension, data)
    /\ ret' = [op |-> "set", args |-> <<index, dimension, data>>, end |-> Normal(Undefined)]
    /\ stored' = [stored EXCEPT ![dimension, index] = Array(data)]
    /\ firstSet' = IF Contains(firstSet, dimension) THEN firstSet
                   ELSE Append(firstSet, dimension)
    /\ discarded' = 0
    /\ setCalls' = [setCalls EXCEPT ![dimension, index] = @ + 1]
    /\ UNCHANGED <<dimensions, ownership, search>>

\* A set call with any arguments, while fewer than max were made
BoundedSet(max) ==
    /\ SetCount < max
    /\ \E index \in Coordinates, dimension \in DimensionNames, data \in Snapshots :
          Set(index, dimension, data)
    /\ UNCHANGED race

SetCall == BoundedSet(MaxSets)

\* cache.invalidate() on both caches
InvalidateCall ==
    /\ simple' = invalidate(simple)
    /\ snapping' = invalidate(snapping)
    /\ ret' = [op |-> "invalidate", args |-> <<>>, end |-> Normal(Undefined)]
    /\ stored' = NothingStored
    /\ firstSet' = <<>>
    /\ discarded' = SetCount
    /\ setCalls' = NoSetCalls
    /\ inFlight' = {[p EXCEPT !.stale = TRUE] : p \in inFlight}
    /\ staleSets' = {}
    /\ UNCHANGED <<dimensions, ownership, search>>

\* A read that empties both stores as it ends
ReturnAndClear(op, end) ==
    /\ ret' = [op |-> op, args |-> <<>>, end |-> end]
    /\ simple' = <<>>
    /\ snapping' = <<>>
    /\ UNCHANGED <<dimensions, history, ownership, race, search>>

\* A read ends (returns or throws) and leaves the caches as they are
Return(op, end) ==
    /\ ret' = [op |-> op, args |-> <<>>, end |-> end]
    /\ UNCHANGED <<caches, history, ownership, race, search>>

SimpleGetCombinedCall ==
    \E start \in Targets, end \in Targets, dimension \in DimensionNames :
        Return("SimpleCache.getCombined", SimpleGetCombined(simple, start, end, dimension))

SimpleGetAllCombinedCall ==
    \E start \in Targets, end \in Targets :
        Return("SimpleCache.getAllCombined", SimpleGetAllCombined(simple, start, end))

SimpleHasFullDataCall ==
    \E index \in Targets :
        Return("SimpleCache.hasFullData",
               Normal(SimpleHasFullData(simple, dimensions, index)))

SimpleGetDebugDataCall ==
    Return("SimpleCache.getDebugData", Normal(SimpleGetDebugData(simple)))

SnappingGetCombinedCall ==
    \E start \in Targets, end \in Targets, dimension \in DimensionNames :
        Return("SnappingCache.getCombined",
               SnappingGetCombined(snapping, start, end, dimension))

SnappingGetAllCombinedCall ==
    \E start \in Targets, end \in Targets :
        Return("SnappingCache.getAllCombined", SnappingGetAllCombined(snapping, start, end))

SnappingHasFullDataCall ==
    \E index \in Targets :
        Return("SnappingCache.hasFullData",
               Normal(SnappingHasFullData(snapping, dimensions, index)))

SnappingGetDebugDataCall ==
    Return("SnappingCache.getDebugData", Normal(SnappingGetDebugData(snapping)))

\* Any read of either cache
ReadCall ==
    \/ SimpleGetCombinedCall
    \/ SimpleGetAllCombinedCall
    \/ SimpleHasFullDataCall
    \/ SimpleGetDebugDataCall
    \/ SnappingGetCombinedCall
    \/ SnappingGetAllCombinedCall
    \/ SnappingHasFullDataCall
    \/ SnappingGetDebugDataCall

\* The calls that change a cache
Next == SetCall \/ InvalidateCall

\* The caches under set and invalidate calls in any order
Spec == Init /\ [][Next]_vars

SetCallBeforeReads == BoundedSet(MaxCallSets)

\* Every call of the interface, reads included
NextCalls ==
    \/ SetCallBeforeReads
    \/ InvalidateCall
    \/ SimpleGetCombinedCall
    \/ SimpleGetAllCombinedCall
    \/ SimpleHasFullDataCall
    \/ SimpleGetDebugDataCall
    \/ SnappingGetCombinedCall
    \/ SnappingGetAllCombinedCall
    \/ SnappingHasFullDataCall
    \/ SnappingGetDebugDataCall

\* The caches under every call of the interface in any order
SpecCalls == Init /\ [][NextCalls]_vars

\* set calls that fill the store of one dimension, "a", with more entries
\* at closer coordinates
LongStoreSetCall ==
    /\ SetCount < MaxLongStoreSets
    /\ \E index \in LongStoreCoordinates : Set(index, "a", <<1, 2>>)
    /\ UNCHANGED race

NextLongStore == LongStoreSetCall \/ InvalidateCall

\* The caches under set calls for one dimension, and invalidate
SpecLongStore == Init /\ [][NextLongStore]_vars

----------------------------------------------------------------------------
(* The caches and the responses of the query layer *)

\* Queries issued and not yet answered, in SpecRace
MaxInFlight == 2

\* set calls since the last invalidate, in SpecRace
MaxRaceSets == 2

\* What the queries of SpecRace ask for and receive
RaceCoordinates == {0, 2}
RaceDimensions == {"a", "b"}
RaceSnapshots == {<<1, 2>>, <<3, 1>>}

\* The query layer sends a query; the response it will receive is in flight
IssueQuery ==
    /\ Cardinality(inFlight) < MaxInFlight
    /\ \E index \in RaceCoordinates, dimension \in RaceDimensions, data \in RaceSnapshots :
          inFlight' = inFlight \cup
              {[index |-> index, dimension |-> dimension, data |-> data, stale |-> FALSE]}
    /\ ret' = [op |-> "query", args |-> <<>>, end |-> Normal(Undefined)]
    /\ UNCHANGED <<caches, history, ownership, staleSets, search>>

\* A response arrives and is passed to set, whenever the query was sent
DeliverResponse ==
    /\ SetCount < MaxRaceSets
    /\ \E p \in inFlight :
          /\ Set(p.index, p.dimension, p.data)
          /\ inFlight' = inFlight \ {p}
          /\ staleSets' =
                {[e EXCEPT !.overwritten =
                      @ \/ (e.index = p.index /\ e.dimension = p.dimension)] :
                    e \in staleSets}
                \cup (IF p.stale
                      THEN {[index |-> p.index, dimension |-> p.dimension,
                             data |-> p.data, overwritten |-> FALSE]}
                      ELSE {})

NextRace == IssueQuery \/ DeliverResponse \/ InvalidateCall

\* The caches under the set calls of responses that arrive at any time
\* after their query, and invalidate
SpecRace == Init /\ [][NextRace]_vars

----------------------------------------------------------------------------
(* The caches and a caller that shares arrays with them *)

\* number[] objects the program creates, in SpecOwnership
MaxArrays == 3

\* Coordinates passed to set and to the reads in SpecOwnership
OwnedCoordinates == {0, 2}

\* Snapshots passed to set in SpecOwnership
OwnedSnapshots == {<<1, 2>>, <<3, 1>>}

\* A SimpleCache.cache read through its references: every stored reference
\* replaced by the array it refers to in the heap h
DerefSimple(cache, h) ==
    [i \in 1 .. Len(cache) |->
        [key   |-> cache[i].key,
         value |-> [j \in 1 .. Len(cache[i].value) |->
                      [key   |-> cache[i].value[j].key,
                       value |-> h[cache[i].value[j].value]]]]]

\* A SnappingCache.cache read through its references
DerefSnapping(cache, h) ==
    [i \in 1 .. Len(cache) |->
        [key   |-> cache[i].key,
         value |-> [j \in 1 .. Len(cache[i].value) |->
                      [index |-> cache[i].value[j].index,
                       data  |-> h[cache[i].value[j].data]]]]]

\* The caller builds a new array data and calls set(index, "a", data) on
\* both caches, which store the reference they are passed
OwnedSetCall ==
    \E index \in OwnedCoordinates, data \in OwnedSnapshots :
        LET ref == Len(heap) + 1
        IN  /\ Len(heap) < MaxArrays
            /\ heap' = Append(heap, data)
            /\ simpleRefs' = SimpleSet(simpleRefs, index, "a", ref)
            /\ snappingRefs' \in SnappingSet(snappingRefs, index, "a", ref)
            /\ passed' = passed \cup {ref}
            /\ ret' = [op |-> "set", args |-> <<index, "a", ref>>,
                       end |-> Normal(Undefined)]
            /\ UNCHANGED <<returned, caches, history, race, search>>

\* cache.invalidate() on both caches; the caller keeps its arrays
OwnedInvalidateCall ==
    /\ simpleRefs' = invalidate(simpleRefs)
    /\ snappingRefs' = invalidate(snappingRefs)
    /\ ret' = [op |-> "invalidate", args |-> <<>>, end |-> Normal(Undefined)]
    /\ UNCHANGED <<heap, passed, returned, caches, history, race, search>>

\* getCombined ends: null and the error go to the caller as they are; the
\* data of a result is the array combineRanges has just created (const
\* data = []), which the caller receives by reference
OwnedReturn(op, end) ==
    /\ IF end.type = "normal" /\ end.value # Null
       THEN LET ref == Len(heap) + 1
            IN  /\ Len(heap) < MaxArrays
                /\ heap' = Append(heap, end.value.data)
                /\ returned' = returned \cup {ref}
                /\ ret' = [op |-> op, args |-> <<>>,
                           end |-> Normal([data |-> ref, range |-> end.value.range])]
       ELSE /\ ret' = [op |-> op, args |-> <<>>, end |-> end]
            /\ UNCHANGED <<heap, returned>>
    /\ UNCHANGED <<simpleRefs, snappingRefs, passed, caches, history, race, search>>

OwnedSimpleGetCombinedCall ==
    \E start \in OwnedCoordinates, end \in OwnedCoordinates :
        OwnedReturn("SimpleCache.getCombined",
                    SimpleGetCombined(DerefSimple(simpleRefs, heap), start, end, "a"))

OwnedSnappingGetCombinedCall ==
    \E start \in OwnedCoordinates, end \in OwnedCoordinates :
        OwnedReturn("SnappingCache.getCombined",
                    SnappingGetCombined(DerefSnapping(snappingRefs, heap), start, end, "a"))

\* getAllCombined ends: each element carries the array its getCombined
\* returned (const {data, range} = result)
OwnedReturnAll(op, end) ==
    /\ IF end.type = "normal"
       THEN LET n == Len(end.value)
            IN  /\ Len(heap) + n <= MaxArrays
                /\ heap' = heap \o [i \in 1 .. n |-> end.value[i].data]
                /\ returned' = returned \cup (Len(heap) + 1 .. Len(heap) + n)
                /\ ret' = [op |-> op, args |-> <<>>,
                           end |-> Normal([i \in 1 .. n |->
                                      [dimension |-> end.value[i].dimension,
                                       data      |-> Len(heap) + i,
                                       range     |-> end.value[i].range]])]
       ELSE /\ ret' = [op |-> op, args |-> <<>>, end |-> end]
            /\ UNCHANGED <<heap, returned>>
    /\ UNCHANGED <<simpleRefs, snappingRefs, passed, caches, history, race, search>>

OwnedSimpleGetAllCombinedCall ==
    \E start \in OwnedCoordinates, end \in OwnedCoordinates :
        OwnedReturnAll("SimpleCache.getAllCombined",
                       SimpleGetAllCombined(DerefSimple(simpleRefs, heap), start, end))

OwnedSnappingGetAllCombinedCall ==
    \E start \in OwnedCoordinates, end \in OwnedCoordinates :
        OwnedReturnAll("SnappingCache.getAllCombined",
                       SnappingGetAllCombined(DerefSnapping(snappingRefs, heap), start, end))

\* Whether the caller has written to an array
Written == \E ref \in 1 .. Len(heap), bucket \in 1 .. 2 : heap[ref][bucket] >= 10

\* The caller assigns to a bucket of an array it holds (data[bucket] = ...),
\* once
CallerWrite ==
    \E ref \in passed \cup returned, bucket \in 1 .. 2 :
        /\ ~Written
        /\ heap' = [heap EXCEPT ![ref][bucket] = @ + 10]
        /\ ret' = [op |-> "write", args |-> <<ref, bucket>>, end |-> Normal(Undefined)]
        /\ UNCHANGED <<simpleRefs, snappingRefs, passed, returned, caches, history, race, search>>

NextOwnership ==
    \/ OwnedSetCall
    \/ OwnedInvalidateCall
    \/ OwnedSimpleGetCombinedCall
    \/ OwnedSnappingGetCombinedCall
    \/ OwnedSimpleGetAllCombinedCall
    \/ OwnedSnappingGetAllCombinedCall
    \/ CallerWrite

\* The caches under set, getCombined, getAllCombined and invalidate calls
\* of a caller that keeps the arrays it passes and receives and writes to
\* them
SpecOwnership == Init /\ [][NextOwnership]_vars

----------------------------------------------------------------------------
(* SnappingCache.get, statement by statement *)

\* Entries of the array that get searches, in SpecSearch
MaxSearchLen == 6

\* The arrays a SnappingCache can hold for a dimension: at least one entry,
\* in non-decreasing order of index (set sorts after every push)
SearchStores ==
    UNION {{[i \in 1 .. n |-> [index |-> f[i], data |-> <<1, 2>>]] :
               f \in {g \in [1 .. n -> LongStoreCoordinates] :
                         \A i \in 1 .. n - 1 : g[i] <= g[i + 1]}} :
             n \in 1 .. MaxSearchLen}

\* get(index, dimension) has read a non-empty data and set lo = 0 and
\* hi = data.length - 1
InitSearch ==
    /\ Constructed
    /\ \E data \in SearchStores, index \in Targets :
          search = [data |-> data, index |-> index, lo |-> 0, hi |-> Len(data) - 1,
                    closest |-> -1, pc |-> "loop"]

\* A round of the loop that moves lo to mid + 1 or hi to mid - 1
LoopStepPastMid ==
    /\ search.pc = "loop"
    /\ search.hi - search.lo > 1
    /\ LET mid == (search.lo + search.hi) \div 2
       IN  search' = IF search.data[mid + 1].index < search.index
                     THEN [search EXCEPT !.lo = mid + 1]
                     ELSE [search EXCEPT !.hi = mid - 1]
    /\ UNCHANGED <<caches, ret, history, ownership, race>>

\* One round of while (hi - lo > 1)
LoopStep ==
    /\ search.pc = "loop"
    /\ search.hi - search.lo > 1
    /\ LET mid == (search.lo + search.hi) \div 2
       IN  search' = IF search.data[mid + 1].index < search.index
                     THEN [search EXCEPT !.lo = mid]
                     ELSE [search EXCEPT !.hi = mid]
    /\ UNCHANGED <<caches, ret, history, ownership, race>>

\* The loop ends and the closer of data[lo] and data[hi] is chosen
LoopExit ==
    /\ search.pc = "loop"
    /\ ~(search.hi - search.lo > 1)
    /\ LET loIsCloser == search.index - search.data[search.lo + 1].index
                            <= search.data[search.hi + 1].index - search.index
       IN  search' = [search EXCEPT !.pc = "done",
                                    !.closest = IF loIsCloser THEN search.lo
                                                ELSE search.hi]
    /\ UNCHANGED <<caches, ret, history, ownership, race>>

NextSearch == LoopStep \/ LoopExit

\* One call of get on any sorted array and target; the call runs to its
\* end, nothing else being scheduled before it returns
SpecSearch == InitSearch /\ [][NextSearch]_vars /\ WF_vars(NextSearch)

----------------------------------------------------------------------------
(* Properties *)

\* high - low, bucket by bucket, for two snapshots of equal length
Delta(high, low) == [i \in 1 .. Len(low) |-> high[i] - low[i]]

\* The last call was set(index, dimension, data)
AfterSet(index, dimension, data) ==
    ret.op = "set" /\ ret.args = <<index, dimension, data>>

\* C1, as claimed: on a SimpleCache, set(c, d, s) followed by set(c2, d, s2)
\* with s and s2 of equal length makes getCombined(c, c2, d) return
\* {data: s2 - s, range: (c, c2)}, for any c and c2, equal or not.
C1_RoundTripAnyCoordinates ==
    [][\A c \in Coordinates, c2 \in Coordinates, d \in DimensionNames,
         s \in Snapshots, s2 \in Snapshots :
            (Len(s) = Len(s2) /\ AfterSet(c, d, s) /\ Set(c2, d, s2))
            => SimpleGetCombined(simple', c, c2, d)
                 = Normal([data |-> Delta(s2, s), range |-> <<c, c2>>])]_vars

\* C1, amended: the round trip returns {data: s2 - s, range: (c, c2)} when
\* c and c2 differ; when c = c2 the second set has overwritten the first
\* and the data is s2 - s2, zero in every bucket.
C1_RoundTrip ==
    [][\A c \in Coordinates, c2 \in Coordinates, d \in DimensionNames,
         s \in Snapshots, s2 \in Snapshots :
            (Len(s) = Len(s2) /\ AfterSet(c, d, s) /\ Set(c2, d, s2))
            => SimpleGetCombined(simple', c, c2, d)
                 = Normal([data  |-> IF c = c2 THEN Delta(s2, s2) ELSE Delta(s2, s),
                           range |-> <<c, c2>>])]_vars

\* C1, witness: set(-2, "a", [1, 2]) and then set(2, "a", [3, 1]) were
\* called and getCombined(-2, 2, "a") returns {data: [2, -1], range: [-2, 2]}.
C1_Witness ==
    /\ AfterSet(2, "a", <<3, 1>>)
    /\ stored["a", -2] = Array(<<1, 2>>)
    /\ SimpleGetCombined(simple, -2, 2, "a")
         = Normal([data |-> <<2, -1>>, range |-> <<-2, 2>>])

\* Whether set was called for dimension d at coordinate c since the last
\* invalidate
IsStored(d, c) == stored[d, c] # Null

\* The data last passed to set for d at c
LastStored(d, c) == stored[d, c].items

\* The coordinates set was called with for d since the last invalidate
StoredCoordinates(d) == {c \in Targets : IsStored(d, c)}

\* A call that returned something other than null
ReturnsResult(end) == end.type = "normal" /\ end.value # Null

\* C2, as claimed: on a SimpleCache, getCombined(start, end, d) returns a
\* non-null result if and only if set was called for d at start and at end
\* since the last invalidate, returns null otherwise, and a non-null result
\* has the range (start, end) and the data (last stored at end) - (last
\* stored at start).
C2_ExactHitIffBothStored ==
    \A start \in Targets, end \in Targets, d \in DimensionNames :
        LET result == SimpleGetCombined(simple, start, end, d)
        IN  /\ ReturnsResult(result) <=> (IsStored(d, start) /\ IsStored(d, end))
            /\ ~(IsStored(d, start) /\ IsStored(d, end)) => result = Normal(Null)
            /\ ReturnsResult(result) =>
                 /\ result.value.range = <<start, end>>
                 /\ result.value.data = Delta(LastStored(d, end), LastStored(d, start))

\* C2, amended: getCombined(start, end, d) returns a non-null result if and
\* only if both boundaries were stored and their last stored snapshots have
\* the same length; with both stored and different lengths it raises the
\* length-mismatch error; with a boundary missing it returns null; the
\* non-null result has the range (start, end) and the data (last stored at
\* end) - (last stored at start).
C2_ExactHit ==
    \A start \in Targets, end \in Targets, d \in DimensionNames :
        SimpleGetCombined(simple, start, end, d)
          = IF ~(IsStored(d, start) /\ IsStored(d, end))
            THEN Normal(Null)
            ELSE IF Len(LastStored(d, start)) # Len(LastStored(d, end))
            THEN LengthError
            ELSE Normal([data  |-> Delta(LastStored(d, end), LastStored(d, start)),
                         range |-> <<start, end>>])

\* C2, witness: "a" holds -2 and 2 and not 0, the snapshot at 2 was
\* overwritten (the SnappingCache kept both entries), and getCombined(2, -2,
\* "a") returns the inverted range (2, -2) with the data of the last writes.
C2_Witness ==
    /\ StoredCoordinates("a") = {-2, 2}
    /\ Len(GetProperty(snapping, "a")) = 3
    /\ SimpleGetCombined(simple, 2, -2, "a")
         = Normal([data |-> <<2, -1>>, range |-> <<2, -2>>])
    /\ SimpleGetCombined(simple, 0, 2, "a") = Normal(Null)
    /\ SimpleGetCombined(simple, -2, 2, "b") = Normal(Null)

\* |x|
Abs(x) == IF x < 0 THEN -x ELSE x

\* The stored coordinate of d closest to target t, the lower one of two
\* that are equally close
Nearest(d, t) ==
    CHOOSE r \in StoredCoordinates(d) :
        \A c \in StoredCoordinates(d) :
            \/ Abs(r - t) < Abs(c - t)
            \/ (Abs(r - t) = Abs(c - t) /\ r <= c)

\* C3: on a SnappingCache, for every dimension that holds entries and every
\* target t, get(t, d) returns one of the stored entries, and its coordinate
\* is the stored coordinate closest to t at whatever distance, the lower one
\* when two are equally close.
C3_NearestNeighbour ==
    \A d \in DimensionNames, t \in Targets :
        StoredCoordinates(d) # {} =>
            LET found == SnappingGet(snapping, t, d)
            IN  /\ found # Null
                /\ Contains(GetProperty(snapping, d), found)
                /\ found.index = Nearest(d, t)

\* C3, witness: "a" holds the five entries -2, -2, -1, 0, 2; the target 1,
\* equally far from 0 and 2, gives 0; the target 3 gives 2 and the target
\* -3 gives -2.
C3_Witness ==
    /\ HasProperty(snapping, "a")
    /\ [i \in 1 .. Len(GetProperty(snapping, "a")) |-> GetProperty(snapping, "a")[i].index]
         = <<-2, -2, -1, 0, 2>>
    /\ SnappingGet(snapping, 1, "a").index = 0
    /\ SnappingGet(snapping, 3, "a").index = 2
    /\ SnappingGet(snapping, -3, "a").index = -2

\* The entries the SnappingCache holds for d at coordinate c
EntriesAt(d, c) ==
    {e \in {GetProperty(snapping, d)[i] : i \in 1 .. Len(GetProperty(snapping, d))} :
        e.index = c}

\* C4, as claimed: SnappingCache.getCombined(start, end, d) returns {data:
\* snapshot(hi) - snapshot(lo), range: (lo, hi)} for the nearest stored
\* coordinates lo of start and hi of end exactly when d holds entries and
\* lo < hi, and returns null otherwise.
C4_SnappedHitIffStrictlyOrdered ==
    \A d \in DimensionNames :
        IF StoredCoordinates(d) = {}
        THEN \A start \in Targets, end \in Targets :
                SnappingGetCombined(snapping, start, end, d) = Normal(Null)
        ELSE LET nearest == [t \in Targets |-> Nearest(d, t)]
                 entries == [c \in StoredCoordinates(d) |-> EntriesAt(d, c)]
             IN  \A start \in Targets, end \in Targets :
                    LET result == SnappingGetCombined(snapping, start, end, d)
                    IN  IF nearest[start] < nearest[end]
                        THEN /\ ReturnsResult(result)
                             /\ result.value.range = <<nearest[start], nearest[end]>>
                             /\ \E low \in entries[nearest[start]],
                                   high \in entries[nearest[end]] :
                                    /\ Len(low.data) = Len(high.data)
                                    /\ result.value.data = Delta(high.data, low.data)
                        ELSE result = Normal(Null)

\* C4, amended: as claimed when the two snapped snapshots have the same
\* length; when d holds entries, lo < hi and the two snapped snapshots have
\* different lengths, the call raises the length-mismatch error instead of
\* returning.
C4_SnappedHit ==
    \A d \in DimensionNames :
        IF StoredCoordinates(d) = {}
        THEN \A start \in Targets, end \in Targets :
                SnappingGetCombined(snapping, start, end, d) = Normal(Null)
        ELSE LET nearest == [t \in Targets |-> Nearest(d, t)]
                 entries == [c \in StoredCoordinates(d) |-> EntriesAt(d, c)]
             IN  \A start \in Targets, end \in Targets :
                    LET result == SnappingGetCombined(snapping, start, end, d)
                    IN  IF nearest[start] < nearest[end]
                        THEN \E low \in entries[nearest[start]],
                                high \in entries[nearest[end]] :
                                 result = IF Len(low.data) # Len(high.data)
                                          THEN LengthError
                                          ELSE Normal([data  |-> Delta(high.data, low.data),
                                                       range |-> <<low.index, high.index>>])
                        ELSE result = Normal(Null)

\* C4, witness: "a" holds -2, 0 and 2; getCombined(-1, 3, "a") snaps to
\* (-2, 2) and returns the difference of their snapshots; getCombined(0, 1,
\* "a") snaps both boundaries to 0 and returns null although 0 < 1; "b",
\* never set, returns null.
C4_Witness ==
    /\ StoredCoordinates("a") = {-2, 0, 2}
    /\ SnappingGetCombined(snapping, -1, 3, "a")
         = Normal([data |-> <<2, -1>>, range |-> <<-2, 2>>])
    /\ SnappingGetCombined(snapping, 0, 1, "a") = Normal(Null)
    /\ SnappingGetCombined(snapping, 3, -3, "a") = Normal(Null)
    /\ SnappingGetCombined(snapping, -3, 3, "b") = Normal(Null)

\* Every getCombined of either cache returns null
EveryGetCombinedMisses ==
    \A start \in Targets, end \in Targets, d \in DimensionNames :
        /\ SimpleGetCombined(simple, start, end, d) = Normal(Null)
        /\ SnappingGetCombined(snapping, start, end, d) = Normal(Null)

\* C5, as claimed: after invalidate(), for either cache and any declared
\* dimension list, the empty one included, getCombined returns null for
\* every start, end and dimension and hasFullData returns false for every
\* coordinate.
C5_InvalidateLeavesNoData ==
    ret.op = "invalidate" =>
        /\ EveryGetCombinedMisses
        /\ \A c \in Targets :
              /\ ~SimpleHasFullData(simple, dimensions, c)
              /\ ~SnappingHasFullData(snapping, dimensions, c)

\* C5, amended: after invalidate() and until the next set, whatever is read
\* in between, getCombined returns null for every start, end and dimension,
\* and hasFullData returns false for every coordinate when the declared
\* list names a dimension; with an empty declared list hasFullData returns
\* true for every coordinate.  (Stated of every state in which no set was
\* made since the last invalidate or since construction.)
C5_InvalidateTotal ==
    firstSet = <<>> =>
        /\ EveryGetCombinedMisses
        /\ \A c \in Targets :
              /\ SimpleHasFullData(simple, dimensions, c) = (dimensions = <<>>)
              /\ SnappingHasFullData(snapping, dimensions, c) = (dimensions = <<>>)

\* C5, witness: invalidate() was just called on caches that declare "a"
\* and "b" and held entries; both stores are empty, no getCombined hits and
\* hasFullData(0) is false for both caches.
C5_Witness ==
    /\ ret.op = "invalidate"
    /\ discarded = MaxCallSets
    /\ dimensions = <<"a", "b">>
    /\ getDimensions(simple) = <<>>
    /\ getDimensions(snapping) = <<>>
    /\ EveryGetCombinedMisses
    /\ ~SimpleHasFullData(simple, dimensions, 0)
    /\ ~SnappingHasFullData(snapping, dimensions, 0)

\* C6: for either cache, hasFullData(c) is true if and only if set was
\* called at exactly c for every declared dimension since the last
\* invalidate, whatever else is stored near c.
C6_HasFullDataExact ==
    \A c \in Targets :
        LET everyDimensionAt == \A i \in 1 .. Len(dimensions) : IsStored(dimensions[i], c)
        IN  /\ SimpleHasFullData(simple, dimensions, c) = everyDimensionAt
            /\ SnappingHasFullData(snapping, dimensions, c) = everyDimensionAt

\* C6, witness: "a" and "b" are declared, "a" holds 0 and "b" holds 0 and
\* 2: hasFullData(0) is true, hasFullData(2) and hasFullData(1) are false
\* for both caches although "a" snaps 1 and 2 to an entry.
C6_Witness ==
    /\ dimensions = <<"a", "b">>
    /\ StoredCoordinates("a") = {0}
    /\ StoredCoordinates("b") = {0, 2}
    /\ SimpleHasFullData(simple, dimensions, 0)
    /\ SnappingHasFullData(snapping, dimensions, 0)
    /\ ~SimpleHasFullData(simple, dimensions, 2)
    /\ ~SnappingHasFullData(snapping, dimensions, 2)
    /\ ~SnappingHasFullData(snapping, dimensions, 1)
    /\ SnappingGet(snapping, 2, "a") # Null

\* The elements getAllCombined is to return: one for each dimension of
\* order whose getCombined outcome in results is a non-null result
CombinedElements(order, results) ==
    LET hits == SelectSeq(order, LAMBDA d : ReturnsResult(results[d]))
    IN  [i \in 1 .. Len(hits) |->
            LET result == results[hits[i]].value
            IN  [dimension |-> hits[i], data |-> result.data, range |-> result.range]]

\* The arrays that hold the elements of arr in another (or the same) order
ArrayPermutations(arr) ==
    LET n == Len(arr)
    IN  {[i \in 1 .. n |-> arr[p[i]]] :
            p \in {f \in [1 .. n -> 1 .. n] : \A i, j \in 1 .. n : f[i] = f[j] => i = j}}

\* The dimensions set since the last invalidate as Object.keys lists them:
\* the names that are array indices first, ascending, then the other names
\* in the order of their first set
KeyOrder ==
    LET indices == SelectSeq(firstSet, LAMBDA d : DimensionArrayIndex[d] >= 0)
        names   == SelectSeq(firstSet, LAMBDA d : DimensionArrayIndex[d] < 0)
        sorted  == CHOOSE seq \in ArrayPermutations(indices) :
                      \A i, j \in 1 .. Len(seq) :
                          i < j => DimensionArrayIndex[seq[i]] < DimensionArrayIndex[seq[j]]
    IN  sorted \o names

AllCombinedOutcome(results) ==
    IF \E d \in DimensionNames : Contains(firstSet, d) /\ results[d].type = "throw"
    THEN LengthError
    ELSE Normal(CombinedElements(KeyOrder, results))

C8_SimpleAndAllCombined ==
    /\ ret.op = "set" => ret.end = Normal(Undefined)
    /\ ret.end.type = "throw" => ret.end = LengthError
    /\ \A start \in Targets, end \in Targets :
          /\ \A d \in DimensionNames :
                SimpleGetCombined(simple, start, end, d).type = "throw"
                <=> /\ IsStored(d, start) /\ IsStored(d, end)
                    /\ Len(LastStored(d, start)) # Len(LastStored(d, end))
          /\ SimpleGetAllCombined(simple, start, end).type = "throw"
             <=> \E d \in DimensionNames :
                    SimpleGetCombined(simple, start, end, d).type = "throw"
          /\ SnappingGetAllCombined(snapping, start, end).type = "throw"
             <=> \E d \in DimensionNames :
                    SnappingGetCombined(snapping, start, end, d).type = "throw"

\* A read that raises leaves both caches as they were
C8_ErrorLeavesCaches == ret'.end.type = "throw" => UNCHANGED caches

\* C8, as claimed: no read raises for a miss; the only error is the
\* length-mismatch error, raised exactly when both boundaries resolve to
\* snapshots of different lengths; set raises nothing; a raised error leaves
\* the caches unchanged.
C8_ErrorExactlyOnDifferentLengths ==
    /\ [](/\ C8_SimpleAndAllCombined
          /\ \A start \in Targets, end \in Targets, d \in DimensionNames :
                LET low  == SnappingGet(snapping, start, d)
                    high == SnappingGet(snapping, end, d)
                IN  SnappingGetCombined(snapping, start, end, d).type = "throw"
                    <=> /\ low # Null /\ high # Null
                        /\ Len(low.data) # Len(high.data))
    /\ [][C8_ErrorLeavesCaches]_vars

\* C8, amended: as claimed, except that SnappingCache.getCombined raises
\* exactly when both boundaries resolve to snapshots of different lengths
\* and the snapped coordinates are strictly ordered, low < high: when they
\* are equal or inverted it returns null whatever the lengths.
C8_ErrorOnlyFromCombination ==
    /\ [](/\ C8_SimpleAndAllCombined
          /\ \A start \in Targets, end \in Targets, d \in DimensionNames :
                LET low  == SnappingGet(snapping, start, d)
                    high == SnappingGet(snapping, end, d)
                IN  SnappingGetCombined(snapping, start, end, d).type = "throw"
                    <=> /\ low # Null /\ high # Null
                        /\ low.index < high.index
                        /\ Len(low.data) # Len(high.data))
    /\ [][C8_ErrorLeavesCaches]_vars

\* C8, witness: SnappingCache.getCombined has just raised the error; for
\* some dimension getCombined(-3, 3) raises it and getCombined(3, -3), which
\* resolves to the same two snapshots, returns null.
C8_Witness ==
    /\ ret.op = "SnappingCache.getCombined"
    /\ ret.end = LengthError
    /\ \E d \in DimensionNames :
          /\ SnappingGetCombined(snapping, -3, 3, d) = LengthError
          /\ SnappingGetCombined(snapping, 3, -3, d) = Normal(Null)
          /\ SimpleGetCombined(simple, 1, 1, d) = Normal(Null)

\* How often x occurs in the sequence seq
Occurrences(seq, x) == Cardinality({i \in 1 .. Len(seq) : seq[i] = x})

\* The coordinates getDebugData of a cache lists for dimension d
DebugCaches(debug, d) ==
    debug[CHOOSE i \in 1 .. Len(debug) : debug[i].dimension = d].caches

\* C9: on a SimpleCache, set(c, d, s) stores s at (d, c) in place of what
\* was there, so that reads use the last snapshot written; it leaves every
\* other coordinate and every other dimension as it was; repeated with the
\* same arguments it leaves the state it found; and getDebugData then lists
\* c once for d.
C9_SetOverwrites ==
    [][\A c \in Coordinates, d \in DimensionNames, s \in Snapshots :
          Set(c, d, s) =>
            /\ SimpleGet(simple', c, d) = Array(s)
            /\ \A c2 \in Targets, d2 \in DimensionNames :
                  (c2 # c \/ d2 # d) =>
                      SimpleGet(simple', c2, d2) = SimpleGet(simple, c2, d2)
            /\ AfterSet(c, d, s) => simple' = simple
            /\ Occurrences(DebugCaches(SimpleGetDebugData(simple'), d), c) = 1
            /\ \A start \in Targets :
                  LET other == SimpleGet(simple', start, d)
                  IN  (other # Null /\ Len(other.items) = Len(s)) =>
                          SimpleGetCombined(simple', start, c, d)
                            = Normal([data  |-> Delta(s, other.items),
                                      range |-> <<start, c>>])]_vars

\* C9, witness: set(0, "a", [3, 1]) was just called after a set(0, "a", [1,
\* 2]) (the SnappingCache holds both entries); the SimpleCache holds [3, 1]
\* at 0 and lists 0 once.
C9_Witness ==
    /\ AfterSet(0, "a", <<3, 1>>)
    /\ EntriesAt("a", 0) = {[index |-> 0, data |-> <<1, 2>>],
                            [index |-> 0, data |-> <<3, 1>>]}
    /\ SimpleGet(simple, 0, "a") = Array(<<3, 1>>)
    /\ DebugCaches(SimpleGetDebugData(simple), "a") = <<0>>

\* The coordinates of the entries the SnappingCache holds for d, in order
StoredSequence(d) ==
    LET arr == GetProperty(snapping, d)
    IN  [i \in 1 .. Len(arr) |-> arr[i].index]

\* C10: in every state of a SnappingCache, the entries of every dimension
\* are in non-decreasing order of coordinate.
C10_SnappingSorted ==
    \A k \in 1 .. Len(snapping) :
        LET arr == snapping[k].value
        IN  \A i, j \in 1 .. Len(arr) : i < j => arr[i].index <= arr[j].index

\* C10, witness: set was called for "a" at 0 twice and then at -2; the
\* entries are in the order -2, 0, 0.
C10_Witness ==
    /\ HasProperty(snapping, "a")
    /\ StoredSequence("a") = <<-2, 0, 0>>
    /\ ObjectKeys(GetProperty(simple, "a"), CoordinateArrayIndex) = <<0, -2>>
    /\ AfterSet(-2, "a", <<1, 2>>)

\* The coordinates SnappingCache.getDebugData lists for dimension d, none
\* when it does not list d
SnappingListed(d) ==
    LET debug == SnappingGetDebugData(snapping)
    IN  IF \E i \in 1 .. Len(debug) : debug[i].dimension = d
        THEN DebugCaches(debug, d)
        ELSE <<>>

\* The number of entries the SnappingCache c holds for dimension d
EntryCount(c, d) == IF HasProperty(c, d) THEN Len(GetProperty(c, d)) ELSE 0

\* C11: on a SnappingCache, every set(c, d, s) adds exactly one entry to d
\* and leaves the entries of every other dimension as they were; in every
\* state getDebugData lists each coordinate for d as many times as set was
\* called with it for d since the last invalidate, and nothing else, so the
\* coordinates listed and the coordinates passed are the same multiset.
C11_SetAppends ==
    /\ [](\A d \in DimensionNames :
            /\ \A c \in Targets : Occurrences(SnappingListed(d), c) = setCalls[d, c]
            /\ \A i \in 1 .. Len(SnappingListed(d)) : SnappingListed(d)[i] \in Targets)
    /\ [][\A c \in Coordinates, d \in DimensionNames, s \in Snapshots :
             Set(c, d, s) =>
               /\ EntryCount(snapping', d) = EntryCount(snapping, d) + 1
               /\ \A d2 \in DimensionNames \ {d} :
                     /\ HasProperty(snapping', d2) = HasProperty(snapping, d2)
                     /\ HasProperty(snapping, d2) =>
                           GetProperty(snapping', d2) = GetProperty(snapping, d2)]_vars

\* C11, witness: set was called for "a" twice at 0 and once at 2;
\* getDebugData lists 0, 0, 2 for "a" while the SimpleCache lists 0 and 2.
C11_Witness ==
    /\ setCalls["a", 0] = 2
    /\ setCalls["a", 2] = 1
    /\ SnappingListed("a") = <<0, 0, 2>>
    /\ DebugCaches(SimpleGetDebugData(simple), "a") = <<0, 2>>

\* The reads of the two caches, as ret names them
ReadOps ==
    {"SimpleCache.getCombined", "SimpleCache.getAllCombined",
     "SimpleCache.hasFullData", "SimpleCache.getDebugData",
     "SnappingCache.getCombined", "SnappingCache.getAllCombined",
     "SnappingCache.hasFullData", "SnappingCache.getDebugData"}

SimpleStoredRefs(cache) ==
    {cache[i].value[j].value : <<i, j>> \in
        {<<i, j>> \in (1 .. Len(cache)) \X (1 .. MaxArrays) : j <= Len(cache[i].value)}}

\* The references a SnappingCache.cache holds
SnappingStoredRefs(cache) ==
    {cache[i].value[j].data : <<i, j>> \in
        {<<i, j>> \in (1 .. Len(cache)) \X (1 .. MaxArrays) : j <= Len(cache[i].value)}}

\* What every getCombined of the two caches returns, with the arrays of
\* the heap h
CombinedResults(h) ==
    [start \in OwnedCoordinates, end \in OwnedCoordinates |->
        <<SimpleGetCombined(DerefSimple(simpleRefs, h), start, end, "a"),
          SnappingGetCombined(DerefSnapping(snappingRefs, h), start, end, "a")>>]

\* C13 (a): a write of the caller to an array it passed to set changes the
\* result of no getCombined.
C13_PassedArraysAreCopied ==
    (ret'.op = "write" /\ ret'.args[1] \in passed)
        => CombinedResults(heap') = CombinedResults(heap)

\* C13 (b), in a state: no array a read returned to the caller is an array
\* a cache holds or an array that was passed to set.
C13_ReturnedArraysAreFresh ==
    returned \cap (SimpleStoredRefs(simpleRefs) \cup SnappingStoredRefs(snappingRefs)
                      \cup passed) = {}

\* C13 (b), in a step: a write of the caller to an array a read returned
\* changes no stored snapshot and the result of no getCombined.
C13_ReturnedArraysAreIndependent ==
    (ret'.op = "write" /\ ret'.args[1] \in returned)
        => /\ DerefSimple(simpleRefs', heap') = DerefSimple(simpleRefs, heap)
           /\ DerefSnapping(snappingRefs', heap') = DerefSnapping(snappingRefs, heap)
           /\ CombinedResults(heap') = CombinedResults(heap)

\* C13: the caches own their snapshots exclusively: (a) writing to an array
\* after it was passed to set changes the result of no later getCombined,
\* and (b) the data a getCombined or getAllCombined returned is an array of
\* its own, so that writing to it changes neither the stored snapshots nor
\* any later result.
C13_ExclusiveOwnership ==
    /\ []C13_ReturnedArraysAreFresh
    /\ [][C13_PassedArraysAreCopied /\ C13_ReturnedArraysAreIndependent]_vars

\* C13, part (b) alone, which the code keeps
C13_ReturnedDataIsOwn ==
    /\ []C13_ReturnedArraysAreFresh
    /\ [][C13_ReturnedArraysAreIndependent]_vars

\* The dimensions callers use that the constructor was not given
Undeclared == {d \in DimensionNames : ~Contains(dimensions, d)}

\* Whether the list of elements a getAllCombined returned has one for d
HasElement(elements, d) == \E i \in 1 .. Len(elements) : elements[i].dimension = d

\* C14, in a state: a dimension outside the declared list that set was
\* called for is served like any other: getDebugData of both caches lists
\* it with its coordinates; between two of its stored coordinates start <
\* end the SimpleCache combines the snapshots last stored there and the
\* SnappingCache combines entries stored there (each returns the result, or
\* raises if the lengths differ); getAllCombined has an element for it
\* whenever its getCombined returns a result.  And a declared dimension
\* that was never set makes hasFullData false for every coordinate.
C14_UndeclaredServed ==
    /\ \A d \in Undeclared :
          StoredCoordinates(d) # {} =>
            /\ {DebugCaches(SimpleGetDebugData(simple), d)[i] :
                   i \in 1 .. Cardinality(StoredCoordinates(d))} = StoredCoordinates(d)
            /\ {SnappingListed(d)[i] : i \in 1 .. Len(SnappingListed(d))}
                 = StoredCoordinates(d)
            /\ \A start \in StoredCoordinates(d), end \in StoredCoordinates(d) :
                  start < end =>
                    LET exact   == SimpleGetCombined(simple, start, end, d)
                        snapped == SnappingGetCombined(snapping, start, end, d)
                        all     == SimpleGetAllCombined(simple, start, end)
                        allSnap == SnappingGetAllCombined(snapping, start, end)
                    IN  /\ exact = IF Len(LastStored(d, start)) # Len(LastStored(d, end))
                                   THEN LengthError
                                   ELSE Normal([data  |-> Delta(LastStored(d, end),
                                                               LastStored(d, start)),
                                                range |-> <<start, end>>])
                        /\ snapped # Normal(Null)
                        /\ ReturnsResult(snapped) => snapped.value.range = <<start, end>>
                        /\ all.type = "normal" =>
                              (HasElement(all.value, d) <=> ReturnsResult(exact))
                        /\ allSnap.type = "normal" =>
                              (HasElement(allSnap.value, d) <=> ReturnsResult(snapped))
    /\ (\E i \in 1 .. Len(dimensions) : StoredCoordinates(dimensions[i]) = {}) =>
          \A c \in Targets :
              /\ ~SimpleHasFullData(simple, dimensions, c)
              /\ ~SnappingHasFullData(snapping, dimensions, c)

\* C14, in a step: a set for a dimension outside the declared list leaves
\* hasFullData of both caches as it was, for every coordinate.
C14_UndeclaredSetKeepsFullData ==
    \A c \in Coordinates, d \in Undeclared, s \in Snapshots :
        Set(c, d, s) =>
            \A t \in Targets :
                /\ SimpleHasFullData(simple', dimensions, t)
                     = SimpleHasFullData(simple, dimensions, t)
                /\ SnappingHasFullData(snapping', dimensions, t)
                     = SnappingHasFullData(snapping, dimensions, t)

\* C14: the declared dimension list bounds hasFullData and does not bound
\* set: data set for an undeclared dimension is stored and served by
\* getCombined, getAllCombined and getDebugData, no set for an undeclared
\* dimension changes hasFullData(c) for any c, and a declared dimension
\* never set makes hasFullData false everywhere.
C14_DeclaredListBoundsFullData ==
    /\ []C14_UndeclaredServed
    /\ [][C14_UndeclaredSetKeepsFullData]_vars

\* C14, witness: "a" and "b" are declared; "a" and "b" were set at 0 and
\* then the undeclared "1" at 0: hasFullData(0) is true as it was before
\* the last set, and getDebugData of both caches lists "1".
C14_Witness ==
    /\ dimensions = <<"a", "b">>
    /\ AfterSet(0, "1", <<3, 1>>)
    /\ StoredCoordinates("a") = {0}
    /\ StoredCoordinates("b") = {0}
    /\ SimpleHasFullData(simple, dimensions, 0)
    /\ SnappingHasFullData(snapping, dimensions, 0)
    /\ SnappingListed("1") = <<0>>
    /\ DebugCaches(SimpleGetDebugData(simple), "1") = <<0>>

\* Whether the SnappingCache holds the entry {index, data} for dimension d
SnappingHolds(d, index, data) ==
    /\ HasProperty(snapping, d)
    /\ Contains(GetProperty(snapping, d), [index |-> index, data |-> data])

\* The step passes the stale response p to set
DeliversStale(p) ==
    /\ p \in inFlight
    /\ p.stale
    /\ inFlight' = inFlight \ {p}
    /\ ret'.op = "set"
    /\ ret'.args = <<p.index, p.dimension, p.data>>

\* A set that carries a stale response ends without error and the caches
\* then serve its snapshot: SimpleCache.get finds it at its coordinate, the
\* SnappingCache snaps its coordinate to an entry stored there.
C15_StaleAccepted ==
    \A p \in inFlight :
        DeliversStale(p) =>
            /\ ret'.end = Normal(Undefined)
            /\ SimpleGet(simple', p.index, p.dimension) = Array(p.data)
            /\ SnappingGet(snapping', p.index, p.dimension).index = p.index

\* C15, as claimed: a set that carries a stale response is accepted and
\* its snapshot stays in both caches, where reads are answered from it,
\* until invalidate is called again; nothing else removes it.
C15_StaleKeptUntilInvalidate ==
    /\ [](\A e \in staleSets :
            /\ SimpleGet(simple, e.index, e.dimension) = Array(e.data)
            /\ SnappingHolds(e.dimension, e.index, e.data))
    /\ [][C15_StaleAccepted]_vars

\* C15, amended: as claimed for the SnappingCache; the SimpleCache keeps
\* the stale snapshot until invalidate is called again or set is called
\* again for the same dimension and coordinate, which replaces it by the
\* snapshot of that call; until then getCombined between the coordinates
\* of two stale snapshots of a dimension returns their difference.
C15_StaleKeptUntilReplaced ==
    /\ [](\A e \in staleSets :
            /\ SnappingHolds(e.dimension, e.index, e.data)
            /\ SimpleGet(simple, e.index, e.dimension)
                 = IF e.overwritten THEN stored[e.dimension, e.index] ELSE Array(e.data)
            /\ \A f \in staleSets :
                  (/\ ~e.overwritten /\ ~f.overwritten
                   /\ e.dimension = f.dimension) =>
                      /\ SimpleGetCombined(simple, e.index, f.index, e.dimension)
                           = Normal([data  |-> Delta(f.data, e.data),
                                     range |-> <<e.index, f.index>>])
                      /\ e.index < f.index =>
                            ReturnsResult(SnappingGetCombined(snapping, e.index, f.index,
                                                              e.dimension)))
    /\ [][C15_StaleAccepted]_vars

\* C15, witness: the response (0, "a", [1, 2]) was passed to set after an
\* invalidate that followed its query, then the response (2, "a", [3, 1]);
\* getCombined(0, 2, "a") of both caches is answered from the stale
\* snapshot.
C15_Witness ==
    /\ [index |-> 0, dimension |-> "a", data |-> <<1, 2>>, overwritten |-> FALSE]
         \in staleSets
    /\ AfterSet(2, "a", <<3, 1>>)
    /\ SimpleGetCombined(simple, 0, 2, "a")
         = Normal([data |-> <<2, -1>>, range |-> <<0, 2>>])
    /\ SnappingGetCombined(snapping, 0, 2, "a")
         = Normal([data |-> <<2, -1>>, range |-> <<0, 2>>])

\* Whether high is below low in some bucket (two snapshots of equal length)
Decreases(low, high) ==
    Len(low) = Len(high) /\ \E i \in 1 .. Len(low) : high[i] < low[i]

\* C16: when the snapshot at the upper boundary is below the snapshot at
\* the lower boundary in some bucket (and both have the same length),
\* getCombined of either cache still returns a result of that length, with
\* high[i] - low[i] in every bucket, the negative ones included: it does
\* not raise, return null or replace the negative value.  (For the
\* SnappingCache: between two coordinates that each hold one entry.)
C16_NegativeDifferencesReturned ==
    \A d \in DimensionNames :
        \A start \in StoredCoordinates(d), end \in StoredCoordinates(d) :
            LET low  == LastStored(d, start)
                high == LastStored(d, end)
                expected == Normal([data |-> Delta(high, low), range |-> <<start, end>>])
            IN  Decreases(low, high) =>
                  /\ InvalidDataLogged(low, high)
                  /\ \E i \in 1 .. Len(low) : expected.value.data[i] < 0
                  /\ Len(expected.value.data) = Len(low)
                  /\ SimpleGetCombined(simple, start, end, d) = expected
                  /\ (start < end /\ setCalls[d, start] = 1 /\ setCalls[d, end] = 1) =>
                        SnappingGetCombined(snapping, start, end, d) = expected

\* C16, witness: "b" holds [3, 1] at -2 and [1, 2] at 2; getCombined(-2, 2,
\* "b") of both caches returns [-2, 1].
C16_Witness ==
    /\ stored["b", -2] = Array(<<3, 1>>)
    /\ stored["b", 2] = Array(<<1, 2>>)
    /\ setCalls["b", -2] = 1
    /\ setCalls["b", 2] = 1
    /\ SimpleGetCombined(simple, -2, 2, "b")
         = Normal([data |-> <<-2, 1>>, range |-> <<-2, 2>>])
    /\ SnappingGetCombined(snapping, -2, 2, "b")
         = Normal([data |-> <<-2, 1>>, range |-> <<-2, 2>>])

\* The coordinate of the entry at the 0-based position i of the array that
\* get searches
SearchCoordinate(i) == search.data[i + 1].index

\* C17, in a state: during and after the loop 0 <= lo <= hi <= n - 1; when
\* the loop has ended on an array of two or more entries, hi = lo + 1, the
\* target lies between the coordinates at lo and hi if it lies between the
\* first and the last coordinate, the entry at lo = 0 is chosen if the
\* target is below every coordinate, and the entry at hi = n - 1 if it is
\* above every coordinate.  The positions are the ones BinarySearch gives
\* and the entry is the one get returns.
C17_LoopBrackets ==
    LET n  == Len(search.data)
        t  == search.index
        lo == search.lo
        hi == search.hi
    IN  /\ 0 <= lo /\ lo <= hi /\ hi <= n - 1
        /\ search.pc = "done" =>
              /\ <<lo, hi>> = BinarySearch(search.data, t, 0, n - 1)
              /\ SearchCoordinate(search.closest)
                   = SnappingGet(SetProperty(<<>>, "a", search.data), t, "a").index
              /\ n = 1 => (lo = 0 /\ hi = 0)
              /\ n >= 2 =>
                    /\ hi = lo + 1
                    /\ (SearchCoordinate(0) <= t /\ t <= SearchCoordinate(n - 1)) =>
                          (SearchCoordinate(lo) <= t /\ t <= SearchCoordinate(hi))
                    /\ t < SearchCoordinate(0) => (lo = 0 /\ search.closest = 0)
                    /\ t > SearchCoordinate(n - 1) =>
                          (hi = n - 1 /\ search.closest = n - 1)

\* C17: the loop of SnappingCache.get ends for every sorted array of one
\* or more entries and every target, and keeps and ends with the positions
\* described above.
C17_BinarySearchEnds ==
    /\ []C17_LoopBrackets
    /\ <>(search.pc = "done")

\* C17, witness: get has ended on an array of the greatest length, with lo
\* and hi inside it, for a target between the coordinates at lo and hi that
\* is closer to the upper one.
C17_Witness ==
    /\ search.pc = "done"
    /\ Len(search.data) = MaxSearchLen
    /\ search.lo > 0
    /\ search.hi < Len(search.data) - 1
    /\ SearchCoordinate(search.lo) < search.index
    /\ search.index < SearchCoordinate(search.hi)
    /\ search.closest = search.hi

\* Whether set was called once at most for each coordinate of d since the
\* last invalidate
SetOnceEach(d) == \A c \in Targets : setCalls[d, c] <= 1

\* C18, as claimed: whenever SimpleCache.getCombined(start, end, d) with
\* start < end returns a result, SnappingCache.getCombined(start, end, d)
\* returns a result with the range (start, end) too, and the same data if
\* no coordinate was set more than once for d.
C18_SnappingHitsWhereSimpleHits ==
    \A d \in DimensionNames, start \in Targets, end \in Targets :
        LET exact   == SimpleGetCombined(simple, start, end, d)
            snapped == SnappingGetCombined(snapping, start, end, d)
        IN  (start < end /\ ReturnsResult(exact)) =>
                /\ ReturnsResult(snapped)
                /\ snapped.value.range = <<start, end>>
                /\ SetOnceEach(d) => snapped.value.data = exact.value.data

\* C18, amended: whenever SimpleCache.getCombined(start, end, d) with
\* start < end returns a result, SnappingCache.getCombined(start, end, d)
\* snaps to (start, end) and either returns a result with that range or
\* raises the length-mismatch error; it raises only if start or end was
\* set more than once for d, with snapshots of different lengths; if no
\* coordinate was set more than once for d, it returns the result the
\* SimpleCache returns.
C18_SnappingSnapsWhereSimpleHits ==
    \A d \in DimensionNames, start \in Targets, end \in Targets :
        LET exact   == SimpleGetCombined(simple, start, end, d)
            snapped == SnappingGetCombined(snapping, start, end, d)
        IN  (start < end /\ ReturnsResult(exact)) =>
                /\ SnappingGet(snapping, start, d).index = start
                /\ SnappingGet(snapping, end, d).index = end
                /\ snapped # Normal(Null)
                /\ ReturnsResult(snapped) => snapped.value.range = <<start, end>>
                /\ snapped.type = "throw" =>
                      /\ snapped = LengthError
                      /\ \E c \in {start, end} :
                            /\ setCalls[d, c] > 1
                            /\ \E e1 \in EntriesAt(d, c), e2 \in EntriesAt(d, c) :
                                  Len(e1.data) # Len(e2.data)
                /\ SetOnceEach(d) => snapped = exact

\* C18, witness: "a" was set once at -2, at 0 and at 2 with snapshots of
\* one length; both caches return the same result for (-2, 2) and for
\* (0, 2).
C18_Witness ==
    /\ StoredCoordinates("a") = {-2, 0, 2}
    /\ SetOnceEach("a")
    /\ ReturnsResult(SimpleGetCombined(simple, -2, 2, "a"))
    /\ SnappingGetCombined(snapping, -2, 2, "a") = SimpleGetCombined(simple, -2, 2, "a")
    /\ ReturnsResult(SimpleGetCombined(simple, 0, 2, "a"))
    /\ SnappingGetCombined(snapping, 0, 2, "a") = SimpleGetCombined(simple, 0, 2, "a")

\* C19: on a SnappingCache, for every dimension that holds entries and all
\* targets start <= end, get(start, d) returns a coordinate that is not
\* above the one get(end, d) returns, so that getCombined(start, end, d)
\* returns null exactly when both boundaries snap to the same coordinate;
\* for a dimension that holds no entry it returns null.
C19_SnappingMonotone ==
    \A d \in DimensionNames :
        IF StoredCoordinates(d) = {}
        THEN \A start \in Targets, end \in Targets :
                SnappingGetCombined(snapping, start, end, d) = Normal(Null)
        ELSE LET snap == [t \in Targets |-> SnappingGet(snapping, t, d).index]
             IN  \A start \in Targets, end \in Targets :
                    start <= end =>
                        /\ snap[start] <= snap[end]
                        /\ (SnappingGetCombined(snapping, start, end, d) = Normal(Null))
                             <=> (snap[start] = snap[end])

\* C19, witness: "a" holds -2, -2, 0, 1, 2; the targets -3 and -1 both snap
\* to -2 and getCombined(-3, -1, "a") returns null; getCombined(-1, 1, "a")
\* returns the range (-2, 1).
C19_Witness ==
    /\ HasProperty(snapping, "a")
    /\ StoredSequence("a") = <<-2, -2, 0, 1, 2>>
    /\ SnappingGetCombined(snapping, -3, -1, "a") = Normal(Null)
    /\ SnappingGetCombined(snapping, -1, 1, "a")
         = Normal([data |-> <<0, 0>>, range |-> <<-2, 1>>])

\* C20, as claimed: on a SnappingCache, for every dimension d and every
\* start < end, when getCombined(start, end, d) returns a non-null result
\* it still returns a non-null result after a further set call, whatever
\* its dimension and coordinate.
C20_HitPersists ==
    [][\A d \in DimensionNames, start \in Targets, end \in Targets :
            (/\ start < end
             /\ ret'.op = "set"
             /\ ReturnsResult(SnappingGetCombined(snapping, start, end, d)))
            => ReturnsResult(SnappingGetCombined(snapping', start, end, d))]_vars

\* C20, amended: when getCombined(start, end, d) returns a non-null result,
\* a further set call on another dimension leaves what it returns
\* unchanged; and if set was called for d at start and at end, then after a
\* further set call on any dimension and coordinate getCombined(start, end,
\* d) is not null: it returns a result with the range (start, end) or
\* raises the length-mismatch error.
C20_HitPersistsAtStoredCoordinates ==
    [][\A d \in DimensionNames, start \in Targets, end \in Targets :
            (/\ start < end
             /\ ret'.op = "set"
             /\ ReturnsResult(SnappingGetCombined(snapping, start, end, d)))
            => LET before == SnappingGetCombined(snapping, start, end, d)
                   after  == SnappingGetCombined(snapping', start, end, d)
               IN  /\ ret'.args[2] # d => after = before
                   /\ (IsStored(d, start) /\ IsStored(d, end))
                        => /\ after # Normal(Null)
                           /\ after = LengthError
                                \/ (/\ ReturnsResult(after)
                                    /\ after.value.range = <<start, end>>)]_vars

\* C20, witness: set(-2, "a", [1, 2]), set(2, "a", [3, 1]) and then
\* set(0, "a", [1, 2]) were called; getCombined(-2, 2, "a") still returns
\* {data: [2, -1], range: [-2, 2]}, while getCombined(0, 1, "a"), a hit on
\* (-2, 2) before the last call, now returns null.
C20_Witness ==
    /\ AfterSet(0, "a", <<1, 2>>)
    /\ stored["a", -2] = Array(<<1, 2>>)
    /\ stored["a", 2] = Array(<<3, 1>>)
    /\ StoredSequence("a") = <<-2, 0, 2>>
    /\ SnappingGetCombined(snapping, -2, 2, "a")
         = Normal([data |-> <<2, -1>>, range |-> <<-2, 2>>])
    /\ SnappingGetCombined(snapping, 0, 1, "a") = Normal(Null)

====
